---- MODULE Spec2Model ----
(***************************************************************************)
(* poolio: a thread pool made of one supervisor thread and `size` worker   *)
(* threads that talk over channels only (src/src/lib.rs).                  *)
(*                                                                         *)
(* Threads of the model: the owner of the ThreadPool handle (new, execute, *)
(* drop), the supervisor thread and one worker thread per slot.  Channels  *)
(* are FIFO sequences.  A job is a number 1..MaxJobs in submission order;  *)
(* jobPanics[j] says whether running job j unwinds.                        *)
(***************************************************************************)
EXTENDS Integers, Sequences, FiniteSets, TLC

\* Bounds of the model.
MaxSize == 2
MaxJobs == 3

Modes == {"Kill", "Respawn"}
Slots == 0..(MaxSize - 1)
Jobs  == 1..MaxJobs

VARIABLES
    mode,               \* PanicSwitch passed to ThreadPool::new
    size,               \* size passed to ThreadPool::new
    poolPc,             \* position of the owner of the handle
    submitted,          \* number of jobs handed to execute() so far
    jobPanics,          \* jobPanics[j]: job j panics when it runs
    orders,             \* order channel (orders_s -> orders_r)
    orders_r,           \* receive endpoint of the order channel
    supPc,              \* position of the supervisor thread
    job,                \* the job the supervisor holds in hand (0: none)
    cur,                \* the status whose worker the supervisor is joining
    number_of_workers,  \* live-worker count of the supervisor
    panicked_jobs,      \* panic counter of the supervisor
    nextId,             \* loop variable of the worker construction loop
    statuses,           \* status channel (statuses_s -> statuses_r)
    wPc,                \* position of the current thread of each slot
    wJob,               \* job a worker thread is running (0: none)
    thread,             \* workers[id].thread is Some
    instructions,       \* instruction channel of each slot
    execCount,          \* how often job j has been started by a worker
    spawned,            \* worker threads ever spawned
    joined,             \* worker threads ever joined
    fresh,              \* fresh[k]: when statuses[k] was sent, the order it
                        \* licenses had already reached the supervisor
    licence             \* how the Idle that licensed the last dispatch was sent:
                        \* "fresh", "stale", or "none" before a dispatch

ownerVars  == <<poolPc, submitted, jobPanics>>
supVars    == <<supPc, job, cur, number_of_workers, panicked_jobs, nextId>>
workerVars == <<wPc, wJob, execCount>>
vars == <<mode, size, poolPc, submitted, jobPanics, orders, orders_r, supPc, job,
          cur, number_of_workers, panicked_jobs, nextId, statuses, wPc, wJob,
          thread, instructions, execCount, spawned, joined, fresh, licence>>

\* Message::NewJob(job) and Message::Terminate.
NewJob(j) == [type |-> "NewJob", job |-> j]
Terminate == [type |-> "Terminate", job |-> 0]

\* Status::Idle(id) and Status::Panic(id).
Idle(id)  == [type |-> "Idle", id |-> id]
Panic(id) == [type |-> "Panic", id |-> id]
NoStatus  == [type |-> "None", id |-> 0]

\* std::process::abort() ends every thread of the process.
ProcessAlive == supPc # "aborted"

\* The supervisor closure is running: it owns statuses_r, statuses_s and workers.
SupervisorRunning == supPc \notin {"none", "returned", "panicked"}

\* The thread of slot i still owns its instructions_r.
InboxOpen(i) == wPc[i] \in {"start", "recv", "run", "report", "exiting"}

\* thread.join() returns once the thread has ended.
JoinReady_NoWait(i) == TRUE
JoinReady(i) == wPc[i] \in {"exited", "panicked"}

Init ==
    /\ mode \in Modes
    /\ size \in 0..MaxSize
    /\ poolPc = "init"
    /\ submitted = 0
    /\ jobPanics = [j \in Jobs |-> FALSE]
    /\ orders = <<>>
    /\ orders_r = "none"
    /\ supPc = "none"
    /\ job = 0
    /\ cur = NoStatus
    /\ number_of_workers = 0
    /\ panicked_jobs = 0
    /\ nextId = 0
    /\ statuses = <<>>
    /\ wPc = [i \in Slots |-> "none"]
    /\ wJob = [i \in Slots |-> 0]
    /\ thread = [i \in Slots |-> FALSE]
    /\ instructions = [i \in Slots |-> <<>>]
    /\ execCount = [j \in Jobs |-> 0]
    /\ spawned = 0
    /\ joined = 0
    /\ fresh = <<>>
    /\ licence = "none"

----------------------------------------------------------------------------
\* The owner of the handle.

\* ThreadPool::new rejects a pool without workers.
SizeRejected_Never(s) == FALSE
SizeRejected(s) == s = 0

\* ThreadPool::new and Supervisor::new up to thread::spawn.
New ==
    /\ poolPc = "init"
    /\ IF SizeRejected(size)
         THEN /\ poolPc' = "err"
              /\ UNCHANGED <<orders_r, supPc, number_of_workers>>
         ELSE /\ poolPc' = "alive"
              /\ orders_r' = "open"
              /\ supPc' = "spawning"
              /\ number_of_workers' = size
    /\ UNCHANGED <<mode, size, submitted, jobPanics, orders, job, cur, panicked_jobs,
                   nextId, statuses, wPc, wJob, thread, instructions, execCount,
                   spawned, joined, fresh,
                   licence>>

\* ThreadPool::execute: send(Message::NewJob(job)).
Execute(p) ==
    /\ ProcessAlive
    /\ poolPc = "alive"
    /\ submitted < MaxJobs
    /\ IF orders_r = "open"
         THEN /\ submitted' = submitted + 1
              /\ jobPanics' = [jobPanics EXCEPT ![submitted + 1] = p]
              /\ orders' = Append(orders, NewJob(submitted + 1))
              /\ UNCHANGED poolPc
         ELSE /\ poolPc' = "unreachable"
              /\ UNCHANGED <<submitted, jobPanics, orders>>
    /\ UNCHANGED <<mode, size, orders_r, supVars, statuses, workerVars, thread,
                   instructions, spawned, joined, fresh,
                   licence>>

\* Drop for ThreadPool / ThreadPool::terminate, first half: send(Message::Terminate).
TerminatePool ==
    /\ ProcessAlive
    /\ poolPc = "alive"
    /\ IF orders_r = "open"
         THEN /\ orders' = Append(orders, Terminate)
              /\ poolPc' = "joining"
         ELSE /\ poolPc' = "unreachable"
              /\ UNCHANGED orders
    /\ UNCHANGED <<mode, size, submitted, jobPanics, orders_r, supVars, statuses,
                   workerVars, thread, instructions, spawned, joined, fresh,
                   licence>>

\* ThreadPool::terminate, second half: join(self.supervisor.thread.take()).
JoinSupervisor ==
    /\ ProcessAlive
    /\ poolPc = "joining"
    /\ supPc \in {"returned", "panicked"}
    /\ poolPc' = IF supPc = "returned" THEN "dropped" ELSE "joinfailed"
    /\ UNCHANGED <<mode, size, submitted, jobPanics, orders, orders_r, supVars,
                   statuses, workerVars, thread, instructions, spawned, joined, fresh,
                   licence>>

----------------------------------------------------------------------------
\* The supervisor thread.

\* A panic of the supervisor thread unwinds its closure: orders_r is dropped.
SupPanics ==
    /\ supPc' = "panicked"
    /\ orders_r' = "dropped"

\* Worker::new(id, statuses_s.clone()) stored in workers[id].
SpawnWorker(id) ==
    /\ wPc' = [wPc EXCEPT ![id] = "start"]
    /\ wJob' = [wJob EXCEPT ![id] = 0]
    /\ thread' = [thread EXCEPT ![id] = TRUE]
    /\ instructions' = [instructions EXCEPT ![id] = <<>>]
    /\ spawned' = spawned + 1

\* for id in 0..number_of_workers { workers.push(Worker::new(..)) }
SupSpawn ==
    /\ ProcessAlive
    /\ supPc = "spawning"
    /\ IF nextId < number_of_workers
         THEN /\ SpawnWorker(nextId)
              /\ nextId' = nextId + 1
              /\ UNCHANGED supPc
         ELSE /\ supPc' = "recvOrder"
              /\ UNCHANGED <<nextId, wPc, wJob, thread, instructions, spawned>>
    /\ UNCHANGED <<mode, size, ownerVars, orders, orders_r, job, cur,
                   number_of_workers, panicked_jobs, statuses, execCount, joined, fresh,
                   licence>>

\* The handle still owns orders_s.
OrdersSenderAlive == poolPc \in {"alive", "joining"}

\* 'distribute_jobs: while let Message::NewJob(job) = orders_r.recv().unwrap()
SupRecvOrder ==
    /\ ProcessAlive
    /\ supPc = "recvOrder"
    /\ orders # <<>> \/ ~OrdersSenderAlive
    /\ licence' = "none"
    /\ IF orders = <<>>
         THEN /\ SupPanics
              /\ UNCHANGED <<orders, job>>
         ELSE /\ orders' = Tail(orders)
              /\ UNCHANGED orders_r
              /\ IF Head(orders).type = "NewJob"
                   THEN /\ job' = Head(orders).job
                        /\ supPc' = "queryStatus"
                   ELSE /\ supPc' = "drain"
                        /\ UNCHANGED job
    /\ UNCHANGED <<mode, size, ownerVars, cur, number_of_workers, panicked_jobs,
                   nextId, statuses, workerVars, thread, instructions, spawned, joined, fresh>>

\* Status::Idle(id) => workers[id].instructions_s.send(..): the worker addressed.
Addressee_First(st) == 0
Addressee(st) == st.id

\* 'query_status: match statuses_r.recv().unwrap()
SupQueryStatus ==
    /\ ProcessAlive
    /\ supPc = "queryStatus"
    /\ statuses # <<>>
    /\ statuses' = Tail(statuses)
    /\ LET st == Head(statuses) IN
       IF st.type = "Idle"
         THEN IF InboxOpen(Addressee(st))
                THEN /\ instructions' = [instructions EXCEPT
                                           ![Addressee(st)] = Append(@, NewJob(job))]
                     /\ job' = 0
                     /\ supPc' = "recvOrder"
                     /\ fresh' = Tail(fresh)
                     /\ licence' = IF Head(fresh) THEN "fresh" ELSE "stale"
                     /\ UNCHANGED <<cur, orders_r>>
                ELSE /\ SupPanics
                     /\ fresh' = Tail(fresh)
                     /\ UNCHANGED <<instructions, job, cur, licence>>
         ELSE /\ cur' = st
              /\ supPc' = "joinDispatch"
              /\ fresh' = Tail(fresh)
              /\ UNCHANGED <<instructions, job, orders_r, licence>>
    /\ UNCHANGED <<mode, size, ownerVars, orders, number_of_workers, panicked_jobs,
                   nextId, workerVars, thread, spawned, joined>>

\* match mode { PanicSwitch::Kill => .. } in the dispatch loop.
KillBranch_Always(m) == TRUE
KillBranch_Never(m) == FALSE
KillBranch(m) == m = "Kill"

\* panicked_jobs += 1 in the Kill branch of the dispatch loop.
KillCount_Forgotten(n) == n
KillCount(n) == n + 1

\* number_of_workers -= 1 in the Kill branch of the dispatch loop.
LiveAfterKill_Unchanged(n) == n
LiveAfterKill(n) == n - 1

\* break 'distribute_jobs in the Kill branch: on to the termination loop.
AfterKill_NextOrder == "recvOrder"
AfterKill == "drain"

\* Where the supervisor continues after respawning workers[id].
AfterRespawn_BreakQuery == "recvOrder"
AfterRespawn == "queryStatus"

\* Status::Panic(id) in the dispatch loop: join, then Kill or Respawn.
SupJoinDispatch ==
    /\ ProcessAlive
    /\ supPc = "joinDispatch"
    /\ ~thread[cur.id] \/ JoinReady(cur.id)
    /\ cur' = NoStatus
    /\ IF ~thread[cur.id] \/ wPc[cur.id] = "panicked"
         THEN /\ SupPanics
              /\ UNCHANGED <<job, number_of_workers, panicked_jobs, wPc, wJob, thread,
                             instructions, spawned, joined, fresh>>
         ELSE /\ joined' = joined + 1
              /\ UNCHANGED orders_r
              /\ IF KillBranch(mode)
                   THEN /\ panicked_jobs' = KillCount(panicked_jobs)
                        /\ number_of_workers' = LiveAfterKill(number_of_workers)
                        /\ job' = 0
                        /\ thread' = [thread EXCEPT ![cur.id] = FALSE]
                        /\ supPc' = AfterKill
                        /\ UNCHANGED <<wPc, wJob, instructions, spawned, fresh>>
                   ELSE /\ SpawnWorker(cur.id)
                        /\ supPc' = AfterRespawn
                        /\ UNCHANGED <<job, number_of_workers, panicked_jobs, fresh>>
    /\ UNCHANGED <<mode, size, ownerVars, orders, nextId, statuses, execCount, licence>>

\* while number_of_workers != 0
DrainLoopCond_OffByOne(n) == n > 1
DrainLoopCond(n) == n # 0

\* Status::Idle(id) => workers[id].instructions_s.send(Message::Terminate)
DrainSends_Never(st) == FALSE
DrainSends_Always(st) == TRUE
DrainSends(st) == st.type = "Idle"

\* The termination loop: match statuses_r.recv().unwrap()
SupDrainRecv ==
    /\ ProcessAlive
    /\ supPc = "drain"
    /\ DrainLoopCond(number_of_workers)
    /\ statuses # <<>>
    /\ statuses' = Tail(statuses)
    /\ fresh' = Tail(fresh)
    /\ LET st == Head(statuses) IN
       IF DrainSends(st) /\ ~InboxOpen(st.id)
         THEN /\ SupPanics
              /\ UNCHANGED <<instructions, cur>>
         ELSE /\ instructions' = IF DrainSends(st)
                                   THEN [instructions EXCEPT
                                           ![st.id] = Append(@, Terminate)]
                                   ELSE instructions
              /\ cur' = st
              /\ supPc' = "joinDrain"
              /\ UNCHANGED orders_r
    /\ UNCHANGED <<mode, size, ownerVars, orders, job, number_of_workers,
                   panicked_jobs, nextId, workerVars, thread, spawned, joined, licence>>

\* if let PanicSwitch::Kill = mode { panicked_jobs += 1 } in the termination loop.
DrainCounts_AnyMode(m, st) == st.type = "Panic"
DrainCounts_Never(m, st) == FALSE
DrainCounts(m, st) == st.type = "Panic" /\ m = "Kill"

\* number_of_workers -= 1 at the end of every round of the termination loop.
LiveAfterDrain_IdleOnly(n, st) == IF st.type = "Idle" THEN n - 1 ELSE n
LiveAfterDrain(n, st) == n - 1

\* join(workers[id].thread.take()) in the termination loop; number_of_workers -= 1.
SupJoinDrain ==
    /\ ProcessAlive
    /\ supPc = "joinDrain"
    /\ ~thread[cur.id] \/ JoinReady(cur.id)
    /\ cur' = NoStatus
    /\ IF ~thread[cur.id] \/ wPc[cur.id] = "panicked"
         THEN /\ SupPanics
              /\ UNCHANGED <<number_of_workers, panicked_jobs, thread, joined>>
         ELSE /\ joined' = joined + 1
              /\ thread' = [thread EXCEPT ![cur.id] = FALSE]
              /\ panicked_jobs' = IF DrainCounts(mode, cur)
                                    THEN panicked_jobs + 1
                                    ELSE panicked_jobs
              /\ number_of_workers' = LiveAfterDrain(number_of_workers, cur)
              /\ supPc' = "drain"
              /\ UNCHANGED orders_r
    /\ UNCHANGED <<mode, size, ownerVars, orders, job, nextId, statuses, workerVars,
                   instructions, spawned, fresh,
                   licence>>

\* if panicked_jobs > 0 { eprintln!(..); std::process::abort(); }
Aborts_Never(n) == FALSE
Aborts(n) == n > 0

\* After the termination loop: abort, or drop(orders_r) and return.
SupFinish ==
    /\ ProcessAlive
    /\ supPc = "drain"
    /\ ~DrainLoopCond(number_of_workers)
    /\ IF Aborts(panicked_jobs)
         THEN /\ supPc' = "aborted"
              /\ UNCHANGED orders_r
         ELSE /\ supPc' = "returned"
              /\ orders_r' = "dropped"
    /\ UNCHANGED <<mode, size, ownerVars, orders, job, cur, number_of_workers,
                   panicked_jobs, nextId, statuses, workerVars, thread, instructions,
                   spawned, joined, fresh,
                   licence>>

Supervisor ==
    \/ SupSpawn
    \/ SupRecvOrder
    \/ SupQueryStatus
    \/ SupJoinDispatch
    \/ SupDrainRecv
    \/ SupJoinDrain
    \/ SupFinish

----------------------------------------------------------------------------
\* The worker threads.

\* Job orders that have reached the supervisor and are not yet forwarded: those
\* in its inbox and the one in its hand.
WaitingOrders ==
    Cardinality({k \in 1..Len(orders) : orders[k].type = "NewJob"})
        + (IF job # 0 THEN 1 ELSE 0)

\* Idle reports in the status channel; each will license one waiting order.
PendingIdles == Cardinality({k \in 1..Len(statuses) : statuses[k].type = "Idle"})

\* statuses_s.send(st).unwrap() of worker i, continuing at `next`.
SendStatus(i, st, next) ==
    IF SupervisorRunning
      THEN /\ statuses' = Append(statuses, st)
           /\ fresh' = Append(fresh, st.type = "Idle" /\ WaitingOrders > PendingIdles)
           /\ wPc' = [wPc EXCEPT ![i] = next]
      ELSE /\ wPc' = [wPc EXCEPT ![i] = "panicked"]
           /\ UNCHANGED <<statuses, fresh>>

\* A worker that enters its loop without reporting for duty.
WorkerStart_Silent(i) ==
    /\ ProcessAlive
    /\ wPc[i] = "start"
    /\ wPc' = [wPc EXCEPT ![i] = "recv"]
    /\ UNCHANGED <<mode, size, ownerVars, orders, orders_r, supVars, statuses, wJob,
                   thread, instructions, execCount, spawned, joined, fresh,
                   licence>>

\* report for duty: statuses_s.send(Status::Idle(id)).unwrap()
WorkerStart(i) ==
    /\ ProcessAlive
    /\ wPc[i] = "start"
    /\ SendStatus(i, Idle(i), "recv")
    /\ UNCHANGED <<mode, size, ownerVars, orders, orders_r, supVars, wJob, thread,
                   instructions, execCount, spawned, joined, licence>>

\* Message::Terminate => break
AfterTerminate_Loop == "recv"
AfterTerminate == "exiting"

\* let message = instructions_r.recv().unwrap(); match message
WorkerRecv(i) ==
    /\ ProcessAlive
    /\ wPc[i] = "recv"
    /\ instructions[i] # <<>> \/ ~SupervisorRunning
    /\ IF instructions[i] = <<>>
         THEN /\ wPc' = [wPc EXCEPT ![i] = "panicked"]
              /\ UNCHANGED <<wJob, instructions>>
         ELSE /\ instructions' = [instructions EXCEPT ![i] = Tail(@)]
              /\ IF Head(instructions[i]).type = "NewJob"
                   THEN /\ wPc' = [wPc EXCEPT ![i] = "run"]
                        /\ wJob' = [wJob EXCEPT ![i] = Head(instructions[i]).job]
                   ELSE /\ wPc' = [wPc EXCEPT ![i] = AfterTerminate]
                        /\ UNCHANGED wJob
    /\ UNCHANGED <<mode, size, ownerVars, orders, orders_r, supVars, statuses, thread,
                   execCount, spawned, joined, fresh,
                   licence>>

\* std::panic::catch_unwind(job): the job runs, to its end or to its panic.
WorkerRun(i) ==
    /\ ProcessAlive
    /\ wPc[i] = "run"
    /\ execCount' = [execCount EXCEPT ![wJob[i]] = @ + 1]
    /\ wPc' = [wPc EXCEPT ![i] = "report"]
    /\ UNCHANGED <<mode, size, ownerVars, orders, orders_r, supVars, statuses, wJob,
                   thread, instructions, spawned, joined, fresh,
                   licence>>

\* Err(_) => { statuses_s.send(Status::Panic(id)).unwrap(); break; }
AfterPanic_Loop == "recv"
AfterPanic == "exiting"

\* Ok(_) => send Idle(id) and loop;  Err(_) => send Panic(id) and break.
WorkerReport(i) ==
    /\ ProcessAlive
    /\ wPc[i] = "report"
    /\ IF jobPanics[wJob[i]]
         THEN SendStatus(i, Panic(i), AfterPanic)
         ELSE SendStatus(i, Idle(i), "recv")
    /\ wJob' = [wJob EXCEPT ![i] = 0]
    /\ UNCHANGED <<mode, size, ownerVars, orders, orders_r, supVars, thread,
                   instructions, execCount, spawned, joined, licence>>

\* The worker closure returns: the thread ends and instructions_r is dropped.
WorkerExit(i) ==
    /\ ProcessAlive
    /\ wPc[i] = "exiting"
    /\ wPc' = [wPc EXCEPT ![i] = "exited"]
    /\ UNCHANGED <<mode, size, ownerVars, orders, orders_r, supVars, statuses, wJob,
                   thread, instructions, execCount, spawned, joined, fresh,
                   licence>>

Worker(i) ==
    \/ WorkerStart(i)
    \/ WorkerRecv(i)
    \/ WorkerRun(i)
    \/ WorkerReport(i)
    \/ WorkerExit(i)

----------------------------------------------------------------------------

Next ==
    \/ New
    \/ \E p \in BOOLEAN : Execute(p)
    \/ TerminatePool
    \/ JoinSupervisor
    \/ Supervisor
    \/ \E i \in Slots : Worker(i)

Spec == Init /\ [][Next]_vars

\* Threads are scheduled fairly, a thread inside drop goes on to join, and
\* every job's execution ends (WorkerRun is a step of Worker(i)).
FairSpec ==
    /\ Spec
    /\ WF_vars(Supervisor)
    /\ \A i \in Slots : WF_vars(Worker(i))
    /\ WF_vars(JoinSupervisor)

----------------------------------------------------------------------------
\* Vocabulary of the properties.

Submitted == 1..submitted

RECURSIVE SumExec(_)
SumExec(S) == IF S = {} THEN 0
              ELSE LET j == CHOOSE x \in S : TRUE
                   IN execCount[j] + SumExec(S \ {j})

\* The shared counter of the tests: one increment per run of an incrementing job.
Counter == SumExec({j \in Submitted : ~jobPanics[j]})

Incrementing == {j \in Submitted : ~jobPanics[j]}
Panicking    == {j \in Submitted : jobPanics[j]}

InChannel(ch, j) == \E k \in 1..Len(ch) : ch[k] = NewJob(j)

\* Job j is on its way: ordered, in hand, in an inbox, or taken by a worker.
InFlight(j) ==
    \/ InChannel(orders, j)
    \/ job = j
    \/ \E i \in Slots : InChannel(instructions[i], j) \/ wJob[i] = j

\* Job j has left the system without having been run.
Destroyed(j) == j \in Submitted /\ execCount[j] = 0 /\ ~InFlight(j)

SupervisorFinished == supPc \in {"returned", "aborted"}

\* C1: N jobs none of which panics, then drop: when drop returns every job has
\* run exactly once and the counter is N, for either policy and every size.
C1_AllJobsCounted ==
    (poolPc = "dropped" /\ Panicking = {})
        => /\ Counter = submitted
           /\ \A j \in Submitted : execCount[j] = 1

C1_Witness ==
    /\ poolPc = "dropped"
    /\ Panicking = {}
    /\ submitted >= 2
    /\ Counter = submitted

\* C2: under Respawn, when drop returns every incrementing job has run exactly
\* once, whatever panicking jobs were submitted around it.
C2_RespawnLosesNoJob ==
    (mode = "Respawn" /\ poolPc = "dropped")
        => /\ \A j \in Incrementing : execCount[j] = 1
           /\ Counter = Cardinality(Incrementing)

C2_Witness ==
    /\ mode = "Respawn"
    /\ poolPc = "dropped"
    /\ \E j, k \in Submitted : j < k /\ jobPanics[j] /\ ~jobPanics[k]
    /\ spawned > size

\* C3: under Kill, once a panicking job has been submitted and the pool is
\* dropped, the supervisor ends in abort, and drop never returns normally.
C3_KillPanicAborts ==
    /\ (mode = "Kill" /\ Panicking # {} /\ poolPc = "joining") ~> (supPc = "aborted")
    /\ []((mode = "Kill" /\ Panicking # {}) => poolPc # "dropped")

C3_Witness ==
    /\ mode = "Kill"
    /\ Panicking # {}
    /\ poolPc = "joining"
    /\ supPc = "aborted"
    /\ panicked_jobs > 0

\* C4: new(0, _) is an error and spawns nothing; new(size >= 1, _) is Ok, with a
\* supervisor and, once it has set up, exactly the workers 0..size-1.
C4_NewChecksSize ==
    poolPc # "init" =>
        IF size = 0
          THEN /\ poolPc = "err"
               /\ supPc = "none"
               /\ spawned = 0
               /\ \A i \in Slots : wPc[i] = "none" /\ ~thread[i]
          ELSE /\ poolPc # "err"
               /\ supPc # "none"
               /\ supPc = "spawning" => spawned = nextId
               /\ supPc # "spawning" => /\ {i \in Slots : wPc[i] # "none"} = 0..(size - 1)
                                        /\ spawned >= size
                                        /\ spawned - joined <= size

C4_Witness ==
    /\ size = 0
    /\ poolPc = "err"

\* C5: a pool dropped without any job eventually returns from drop normally,
\* with the supervisor returned and all size workers exited and joined.
C5_EmptyPoolDrops ==
    (poolPc = "joining" /\ submitted = 0)
        ~> /\ poolPc = "dropped"
           /\ supPc = "returned"
           /\ spawned = size
           /\ joined = size
           /\ \A i \in 0..(size - 1) : wPc[i] = "exited" /\ ~thread[i]

C5_Witness ==
    /\ poolPc = "dropped"
    /\ submitted = 0
    /\ size >= 2
    /\ joined = size

\* C6: when the supervisor finishes, by returning or by aborting, no worker runs
\* a job, no instruction is left in an inbox, and every worker thread ever
\* spawned has ended and been joined.
C6_FinishInterruptsNothing ==
    SupervisorFinished
        => /\ \A i \in Slots : /\ wPc[i] \in {"none", "exited"}
                               /\ wJob[i] = 0
                               /\ instructions[i] = <<>>
                               /\ ~thread[i]
           /\ joined = spawned

C6_Witness ==
    /\ supPc = "returned"
    /\ mode = "Respawn"
    /\ spawned > size
    /\ \E j \in Submitted : execCount[j] = 1

\* C7: no job runs twice; a job leaves the system without having run only under
\* Kill after a panic has been counted; and when drop returns every submitted
\* job has run exactly once.
C7_OnceOrDestroyedUnderKill ==
    /\ \A j \in Jobs : execCount[j] <= 1
    /\ \A j \in Jobs : Destroyed(j) => (mode = "Kill" /\ panicked_jobs > 0)
    /\ (SupervisorFinished /\ \E j \in Submitted : execCount[j] = 0)
           => (mode = "Kill" /\ supPc = "aborted")
    /\ poolPc = "dropped" => \A j \in Submitted : execCount[j] = 1

C7_Witness ==
    /\ mode = "Kill"
    /\ supPc = "aborted"
    /\ \E j, k \in Submitted : Destroyed(j) /\ execCount[k] = 1 /\ jobPanics[k]

\* C8: under Respawn the panic counter stays 0 and the supervisor never aborts,
\* wherever the Panicked report is consumed.
C8_RespawnNeverAborts ==
    mode = "Respawn" => (panicked_jobs = 0 /\ supPc # "aborted")

\* A panic reported under Respawn and consumed by the termination loop (no
\* worker was respawned for it), after which drop returned.
C8_Witness ==
    /\ mode = "Respawn"
    /\ poolPc = "dropped"
    /\ spawned = size
    /\ \E j \in Submitted : jobPanics[j] /\ execCount[j] = 1

\* C9: when the supervisor aborts, the mode is Kill, the count it reports is the
\* number of jobs that panicked while running and is at least 1, no report is
\* left in the status channel and the live-worker count is 0.
C9_AbortCountsPanics ==
    supPc = "aborted"
        => /\ mode = "Kill"
           /\ panicked_jobs >= 1
           /\ panicked_jobs = Cardinality({j \in Panicking : execCount[j] >= 1})
           /\ statuses = <<>>
           /\ number_of_workers = 0

C9_Witness ==
    /\ supPc = "aborted"
    /\ panicked_jobs >= 2

\* C10: no send of the handle finds the order channel closed; orders_r is
\* dropped only by a supervisor that returns after receiving Terminate, and
\* never once a panic has been counted.
C10_SupervisorReachable ==
    /\ poolPc # "unreachable"
    /\ poolPc = "alive" => orders_r = "open"
    /\ orders_r = "dropped"
           => /\ supPc = "returned"
              /\ poolPc \in {"joining", "dropped"}
              /\ orders = <<>>
              /\ panicked_jobs = 0

C10_Witness ==
    /\ orders_r = "dropped"
    /\ poolPc = "joining"
    /\ submitted >= 2

\* Worker i has a report pending in the status channel or will still send one.
WillReport(i) ==
    \/ \E k \in 1..Len(statuses) : statuses[k].id = i
    \/ wPc[i] \in {"start", "run", "report"}
    \/ /\ wPc[i] = "recv"
       /\ instructions[i] # <<>>
       /\ Head(instructions[i]).type = "NewJob"

\* The supervisor is at a statuses_r.recv(), in either loop.
WaitsForStatus ==
    \/ supPc = "queryStatus"
    \/ supPc = "drain" /\ number_of_workers # 0

\* C11: once Terminate has been sent the supervisor eventually finishes; while
\* it waits for a status the live-worker count is positive and some unjoined
\* worker has a report pending or still to come; it takes no status from the
\* channel when the count is 0.
C11_StatusReadNeverBlocks ==
    /\ (poolPc = "joining") ~> SupervisorFinished
    /\ [](WaitsForStatus => /\ number_of_workers > 0
                            /\ \E i \in Slots : thread[i] /\ WillReport(i))
    /\ [][Len(statuses') < Len(statuses) => number_of_workers > 0]_vars

C11_Witness ==
    /\ poolPc = "joining"
    /\ supPc = "returned"
    /\ size >= 2
    /\ \E j, k \in Submitted : jobPanics[j] /\ execCount[j] = 1 /\ execCount[k] = 1 /\ j # k

\* In this step a status of worker i is put on the status channel.
Sends(i) ==
    /\ Len(statuses') = Len(statuses) + 1
    /\ statuses'[Len(statuses')].id = i

\* In this step worker i takes an instruction from its inbox.
Receives(i) == Len(instructions'[i]) < Len(instructions[i])

\* C12: a thread that has just been started has sent and received nothing; its
\* first step sends Idle(i) and nothing else, and it then sends nothing until
\* it has taken an instruction, which it does only from its receive position.
C12_StartReportsIdleOnce ==
    /\ [](\A i \in Slots :
            wPc[i] = "start" => /\ instructions[i] = <<>>
                                /\ wJob[i] = 0
                                /\ \A k \in 1..Len(statuses) : statuses[k].id # i)
    /\ [][\A i \in Slots :
            /\ (wPc[i] = "start" /\ wPc'[i] # "start")
                   => /\ wPc'[i] = "recv"
                      /\ statuses' = Append(statuses, Idle(i))
                      /\ instructions'[i] = instructions[i]
                      /\ execCount' = execCount
            /\ (wPc[i] = "start" /\ wPc'[i] = "start") => ~Sends(i)
            /\ (wPc[i] = "recv" /\ wPc'[i] = "recv") => ~Sends(i)
            /\ Receives(i) => wPc[i] = "recv"]_vars

C12_Witness ==
    /\ spawned > size
    /\ \E i \in Slots : /\ wPc[i] = "recv"
                        /\ instructions[i] = <<>>
                        /\ \E k \in 1..Len(statuses) : statuses[k] = Idle(i)
                        /\ thread[i]
    /\ job # 0

\* C13: a job that ends without panicking is followed by exactly one Idle(i)
\* and the worker receives again; a job that panics is followed by exactly one
\* Panic(i), after which the thread only ends: it sends nothing, takes no
\* instruction, runs no job, and neither it nor the thread joining it unwinds.
C13_OneReportPerJob ==
    /\ [](\A i \in Slots : wPc[i] # "panicked")
    /\ [](supPc # "panicked" /\ poolPc # "joinfailed")
    /\ [][\A i \in Slots :
            /\ (wPc[i] = "run" /\ wPc'[i] # "run")
                   => /\ wPc'[i] = "report"
                      /\ wJob'[i] = wJob[i]
                      /\ execCount'[wJob[i]] = execCount[wJob[i]] + 1
                      /\ statuses' = statuses
            /\ (wPc[i] = "report" /\ wPc'[i] = "report") => ~Sends(i)
            /\ (wPc[i] = "report" /\ wPc'[i] # "report")
                   => IF jobPanics[wJob[i]]
                        THEN /\ statuses' = Append(statuses, Panic(i))
                             /\ wPc'[i] = "exiting"
                        ELSE /\ statuses' = Append(statuses, Idle(i))
                             /\ wPc'[i] = "recv"
            /\ wPc[i] \in {"exiting", "exited"}
                   => /\ ~Sends(i)
                      /\ ~Receives(i)
                      /\ wJob'[i] = 0
                      /\ \/ wPc'[i] = wPc[i]
                         \/ wPc[i] = "exiting" /\ wPc'[i] = "exited"
                         \/ /\ wPc[i] = "exited" /\ wPc'[i] = "start"
                            /\ spawned' = spawned + 1]_vars

C13_Witness ==
    \E i, k \in Slots :
        /\ wPc[i] = "exited"
        /\ thread[i]
        /\ \E n \in 1..Len(statuses) : statuses[n] = Panic(i)
        /\ wPc[k] = "recv"
        /\ \E n \in 1..Len(statuses) : statuses[n] = Idle(k)
        /\ \E j \in Submitted : ~jobPanics[j] /\ execCount[j] = 1

\* C14: a worker that takes Terminate from its inbox sends no status and runs
\* no job in that step or afterwards, and ends without unwinding, so that the
\* join the supervisor performs on it succeeds.
C14_TerminateEndsWorker ==
    /\ [](supPc = "joinDrain" /\ cur.type = "Idle"
              => /\ wPc[cur.id] \in {"recv", "exiting", "exited"}
                 /\ wPc[cur.id] = "recv" => instructions[cur.id] = <<Terminate>>
                 /\ wPc[cur.id] # "recv" => instructions[cur.id] = <<>>
                 /\ wJob[cur.id] = 0
                 /\ \A k \in 1..Len(statuses) : statuses[k].id # cur.id)
    /\ [][/\ \A i \in Slots :
               (Receives(i) /\ Head(instructions[i]) = Terminate)
                   => /\ wPc'[i] = "exiting"
                      /\ instructions'[i] = Tail(instructions[i])
                      /\ statuses' = statuses
                      /\ execCount' = execCount
                      /\ wJob'[i] = 0
          /\ (supPc = "joinDrain" /\ supPc' # "joinDrain")
                   => /\ supPc' = "drain"
                      /\ wPc[cur.id] = "exited"
                      /\ thread[cur.id] /\ ~thread'[cur.id]
                      /\ joined' = joined + 1]_vars

C14_Witness ==
    /\ supPc = "joinDrain"
    /\ cur.type = "Idle"
    /\ wPc[cur.id] = "exited"
    /\ thread[cur.id]
    /\ \E j \in Submitted : execCount[j] = 1

\* C15: an instruction is put into the inbox of worker i only in the step that
\* takes Idle(i) from the status channel, one instruction per Idle taken (the
\* job in hand in the dispatch loop, Terminate in the termination loop); so a
\* worker never has more than one instruction or job in flight.
C15_ReadinessHandshake ==
    /\ [](\A i \in Slots :
            Len(instructions[i]) + (IF wJob[i] # 0 THEN 1 ELSE 0) <= 1)
    /\ [][/\ \A i \in Slots :
               Len(instructions'[i]) > Len(instructions[i])
                   => /\ statuses # <<>>
                      /\ Head(statuses) = Idle(i)
                      /\ statuses' = Tail(statuses)
                      /\ instructions'[i] =
                            Append(instructions[i],
                                   IF supPc = "queryStatus" THEN NewJob(job)
                                                            ELSE Terminate)
                      /\ supPc \in {"queryStatus", "drain"}
                      /\ \A k \in Slots \ {i} : instructions'[k] = instructions[k]
          /\ (Len(statuses') < Len(statuses) /\ Head(statuses).type = "Idle")
                   => Len(instructions'[Head(statuses).id])
                          = Len(instructions[Head(statuses).id]) + 1]_vars

C15_Witness ==
    \E i, k \in Slots :
        /\ i # k
        /\ wPc[i] = "recv"
        /\ Len(instructions[i]) = 1
        /\ Head(instructions[i]).type = "NewJob"
        /\ wPc[k] = "run"

\* Job j has been handed to a worker.
Forwarded(j) ==
    \/ \E i \in Slots : InChannel(instructions[i], j) \/ wJob[i] = j
    \/ execCount[j] > 0

\* Job k is still with the supervisor: in its inbox or in its hand.
Pending(k) == InChannel(orders, k) \/ job = k

\* C16: the supervisor takes an order from its inbox only with an empty hand,
\* the hand is emptied only by forwarding the job to one worker (or, under
\* Kill, by abandoning it), and no job is forwarded while an earlier job of the
\* submission sequence is still pending.
C16_DispatchInOrder ==
    /\ [](\A j, k \in Jobs : (Forwarded(j) /\ Pending(k)) => j < k)
    /\ [](\A n \in 1..Len(orders) :
            /\ orders[n].type = "NewJob" => (job = 0 \/ job < orders[n].job)
            /\ \A m \in 1..(n - 1) :
                   orders[n].type = "NewJob" => orders[m].job < orders[n].job)
    /\ [][/\ Len(orders') < Len(orders)
               => /\ job = 0
                  /\ supPc = "recvOrder"
                  /\ orders' = Tail(orders)
                  /\ job' = Head(orders).job
          /\ (job # 0 /\ job' # job)
               => /\ job' = 0
                  /\ orders' = orders
                  /\ \/ \E i \in Slots :
                          instructions'[i] = Append(instructions[i], NewJob(job))
                     \/ mode = "Kill" /\ supPc = "joinDispatch"]_vars

C16_Witness ==
    /\ job = 2
    /\ InChannel(orders, 3)
    /\ Forwarded(1)
    /\ supPc = "queryStatus"

\* C17: under Kill, a Panic(w) taken while a job is in hand makes the supervisor
\* join worker w, add 1 to the panic counter, take 1 from the live-worker count
\* and go to the termination loop; the job in hand goes to no worker and stays
\* unrun, and the order inbox is not read again.
C17_KillAbandonsJobInHand ==
    /\ []((mode = "Kill" /\ panicked_jobs > 0)
              => (supPc \in {"drain", "joinDrain", "aborted"} /\ job = 0))
    /\ [][/\ (/\ mode = "Kill"
              /\ supPc = "queryStatus" /\ supPc' # "queryStatus"
              /\ Head(statuses).type = "Panic")
                 => /\ supPc' = "joinDispatch"
                    /\ cur' = Head(statuses)
                    /\ job' = job
                    /\ instructions' = instructions
          /\ (mode = "Kill" /\ supPc = "joinDispatch" /\ supPc' # "joinDispatch")
                 => /\ wPc[cur.id] = "exited"
                    /\ thread[cur.id] /\ ~thread'[cur.id]
                    /\ joined' = joined + 1
                    /\ spawned' = spawned
                    /\ panicked_jobs' = panicked_jobs + 1
                    /\ number_of_workers' = number_of_workers - 1
                    /\ instructions' = instructions
                    /\ orders' = orders
                    /\ supPc' = "drain"
                    /\ job' = 0
                    /\ \E j \in Jobs : j = job /\ Destroyed(j)'
          /\ (mode = "Kill" /\ panicked_jobs > 0) => Len(orders') >= Len(orders)
          /\ \A j \in Jobs : Destroyed(j) => Destroyed(j)']_vars

C17_Witness ==
    /\ mode = "Kill"
    /\ supPc = "drain"
    /\ size >= 2
    /\ panicked_jobs = 1
    /\ number_of_workers = size - 1
    /\ joined = 1
    /\ \E j \in Submitted : Destroyed(j)

\* C18: under Respawn, a Panic(w) taken while a job is in hand makes the
\* supervisor join worker w and put a freshly started thread with the same id
\* into slot w; the live-worker count, the panic counter and the job in hand
\* stay as they are; the job goes to the worker of the next Idle taken, and is
\* eventually forwarded.
C18_RespawnKeepsJobInHand ==
    /\ (mode = "Respawn" /\ supPc = "joinDispatch") ~> (job = 0)
    /\ [][(mode = "Respawn" /\ job # 0 /\ job' = 0)
             => \E j \in Jobs : j = job /\ Forwarded(j)']_vars
    /\ [][/\ (mode = "Respawn" /\ supPc = "joinDispatch" /\ supPc' # "joinDispatch")
                 => /\ wPc[cur.id] = "exited"
                    /\ joined' = joined + 1
                    /\ spawned' = spawned + 1
                    /\ wPc'[cur.id] = "start"
                    /\ thread'[cur.id]
                    /\ instructions'[cur.id] = <<>>
                    /\ \A k \in Slots \ {cur.id} :
                           wPc'[k] = wPc[k] /\ thread'[k] = thread[k]
                    /\ number_of_workers' = number_of_workers
                    /\ panicked_jobs' = panicked_jobs
                    /\ job # 0
                    /\ job' = job
                    /\ supPc' = "queryStatus"
          /\ (/\ mode = "Respawn"
              /\ supPc = "queryStatus"
              /\ Len(statuses') < Len(statuses)
              /\ Head(statuses).type = "Idle")
                 => /\ instructions'[Head(statuses).id] =
                          Append(instructions[Head(statuses).id], NewJob(job))
                    /\ job' = 0
                    /\ supPc' = "recvOrder"]_vars

C18_Witness ==
    /\ mode = "Respawn"
    /\ size = 1
    /\ jobPanics[1]
    /\ spawned = 2
    /\ execCount[2] = 1

\* Joins that took a worker away for good: every join but those of the Respawn
\* arm, each of which is paired with the spawn of a replacement.
Respawns == spawned - nextId
JoinsWithoutRespawn == joined - Respawns

\* C19: the live-worker count is the initial size less the workers joined by
\* the termination loop and the workers lost to a panic under Kill, and it is
\* the number of slots that still hold a join handle.
C19_LiveWorkerCount ==
    /\ supPc # "none" => number_of_workers = size - JoinsWithoutRespawn
    /\ supPc \notin {"none", "spawning"}
           => number_of_workers = Cardinality({i \in Slots : thread[i]})
    /\ mode = "Kill" => Respawns = 0

C19_Witness ==
    /\ mode = "Kill"
    /\ size = 2
    /\ number_of_workers = 0
    /\ joined = 2
    /\ panicked_jobs = 1
    /\ \E j \in Submitted : Destroyed(j)

HasIdle(ch) == \E k \in 1..Len(ch) : ch[k].type = "Idle"

\* The sender of the oldest Idle pending in channel ch.
FirstIdleId(ch) ==
    ch[CHOOSE k \in 1..Len(ch) :
           /\ ch[k].type = "Idle"
           /\ \A m \in 1..(k - 1) : ch[m].type # "Idle"].id

\* C20 as stated: the Idle that licenses a dispatch was sent after the order
\* it dispatches had reached the supervisor.
C20_LicensedByLaterIdle == licence # "stale"

\* C20 as amended: while the supervisor holds a job, the sender of the oldest
\* Idle pending in the status channel stays the same until the job leaves the
\* hand, and the job then goes to that worker (or is abandoned under Kill);
\* that Idle may have been sent before the order arrived.
C20_OldestPendingIdleWins ==
    [][(job # 0 /\ supPc \in {"queryStatus", "joinDispatch"} /\ HasIdle(statuses))
          => \/ /\ job' = job
                /\ HasIdle(statuses')
                /\ FirstIdleId(statuses') = FirstIdleId(statuses)
             \/ /\ job' = 0
                /\ Head(statuses) = Idle(FirstIdleId(statuses))
                /\ instructions'[FirstIdleId(statuses)] =
                       Append(instructions[FirstIdleId(statuses)], NewJob(job))
             \/ /\ job' = 0
                /\ mode = "Kill"
                /\ supPc = "joinDispatch"
                /\ instructions' = instructions]_vars

\* Job 2 has gone to a worker whose Idle was sent before order 2 arrived.
C20_Witness ==
    /\ licence = "stale"
    /\ job = 0
    /\ \E i \in Slots : instructions[i] = <<NewJob(2)>>

\* A job has panicked: a worker has run a job that unwinds.
AnyPanicked == \E j \in Submitted : jobPanics[j] /\ execCount[j] > 0

\* C21 as stated: under Kill, a job that is not yet handed to a worker when a
\* job has panicked never starts executing.
C21_SkippedAfterFirstPanic ==
    \A k \in Jobs :
        []((mode = "Kill" /\ AnyPanicked /\ ~Forwarded(k)) => [](execCount[k] = 0))

\* C21 as amended: under Kill, once the supervisor has counted a panic, no
\* job that is not yet handed to a worker is handed to one or starts
\* executing; until then, jobs still go to the workers whose Idle the
\* supervisor takes before the Panic.
C21_SkippedAfterPanicCounted ==
    [][(mode = "Kill" /\ panicked_jobs > 0)
          => \A k \in Jobs : ~Forwarded(k) => ~Forwarded(k)']_vars

\* The supervisor has counted a panic and left a later job unrun, while
\* another job submitted after the panicking one did run.
C21_Witness ==
    /\ mode = "Kill"
    /\ panicked_jobs > 0
    /\ jobPanics[1] /\ execCount[1] = 1
    /\ execCount[2] = 1
    /\ submitted = 3 /\ ~Forwarded(3)
    /\ supPc = "aborted"

\* The supervisor is at a join of the worker that sent `cur`.
Joining == supPc \in {"joinDispatch", "joinDrain"}

\* C22: a join handle is given up only by a join that returns normally, and
\* once: the handles in existence are those spawned and not yet joined; the
\* supervisor joins only a slot that holds a handle, whose thread has exited or
\* is about to exit without unwinding; every pending status names a slot that
\* holds a handle and whose current thread is where its sender was left; the
\* supervisor never unwinds.
C22_JoinHandleOwnedOnce ==
    /\ [](/\ supPc # "panicked"
          /\ spawned - joined = Cardinality({i \in Slots : thread[i]})
          /\ Joining
               => /\ thread[cur.id]
                  /\ \A k \in 1..Len(statuses) : statuses[k].id # cur.id
                  /\ IF cur.type = "Panic"
                       THEN wPc[cur.id] \in {"exiting", "exited"}
                       ELSE \/ wPc[cur.id] \in {"exiting", "exited"}
                            \/ /\ wPc[cur.id] = "recv"
                               /\ instructions[cur.id] = <<Terminate>>
          /\ \A k \in 1..Len(statuses) :
               /\ thread[statuses[k].id]
               /\ IF statuses[k].type = "Panic"
                    THEN wPc[statuses[k].id] \in {"exiting", "exited"}
                    ELSE /\ wPc[statuses[k].id] = "recv"
                         /\ instructions[statuses[k].id] = <<>>)
    /\ [][/\ \A i \in Slots :
               (thread[i] /\ ~thread'[i]) => (joined' # joined /\ cur.id = i)
          /\ joined' # joined
               => /\ Joining
                  /\ thread[cur.id]
                  /\ wPc[cur.id] = "exited"
                  /\ joined' = joined + 1
          /\ \A i \in Slots : (~thread[i] /\ thread'[i]) => spawned' = spawned + 1]_vars

\* Under Respawn a slot has been joined twice, each time with a handle in it,
\* and the pool has been dropped.
C22_Witness ==
    /\ mode = "Respawn"
    /\ size = 1
    /\ joined = 2
    /\ spawned = 2
    /\ ~thread[0]
    /\ poolPc = "dropped"

\* The statuses pending from worker id i.
PendingFrom(i) == {k \in 1..Len(statuses) : statuses[k].id = i}

\* C23: no instruction send of the supervisor fails: it sends only on taking an
\* Idle(i), whose sender holds its handle and waits at its empty inbox with the
\* inbox open; a freshly started thread has no status of its slot pending; and
\* the status channel holds at most one status per worker id, at most `size`
\* in all.
C23_InstructionSendNeverFails ==
    /\ [](/\ supPc # "panicked"
          /\ \A i \in Slots : Cardinality(PendingFrom(i)) <= 1
          /\ Len(statuses) <= size
          /\ \A k \in 1..Len(statuses) :
               statuses[k].type = "Idle"
                   => /\ thread[statuses[k].id]
                      /\ InboxOpen(statuses[k].id)
                      /\ wPc[statuses[k].id] = "recv"
                      /\ instructions[statuses[k].id] = <<>>)
    /\ [][/\ (Len(statuses') < Len(statuses) /\ Head(statuses).type = "Idle")
               => /\ InboxOpen(Head(statuses).id)
                  /\ wPc[Head(statuses).id] = "recv"
                  /\ Len(instructions'[Head(statuses).id]) = 1
                  /\ \E i \in Slots : i = Head(statuses).id /\ PendingFrom(i)' = {}
          /\ \A i \in Slots :
               /\ instructions'[i] # instructions[i] /\ ~Receives(i)
                     => /\ statuses # <<>>
                        /\ Head(statuses) = Idle(i)
                        /\ InboxOpen(i)
               /\ (wPc'[i] = "start" /\ wPc[i] # "start") => PendingFrom(i)' = {}]_vars

\* Under Respawn the thread that replaced a panicked one has reported Idle and
\* has been sent the next job.
C23_Witness ==
    /\ mode = "Respawn"
    /\ size = 1
    /\ jobPanics[1]
    /\ spawned = 2
    /\ wPc[0] = "recv"
    /\ instructions[0] = <<NewJob(2)>>
    /\ statuses = <<>>

\* Job j is with a worker that has not started it yet.
WithWorker(j) == \E i \in Slots : InChannel(instructions[i], j) \/ wJob[i] = j

\* C24: under Kill the jobs that have started are a prefix of the submission
\* sequence but for earlier jobs a worker holds and has yet to start, and
\* exactly a prefix once the supervisor has finished; the panics counted never
\* exceed the pool size, and no worker thread is started beyond the first
\* `size`.
C24_KillRunsPrefix ==
    mode = "Kill" =>
        /\ \A j, k \in Submitted :
               (k < j /\ execCount[j] > 0)
                   => /\ execCount[k] > 0 \/ WithWorker(k)
                      /\ SupervisorFinished => execCount[k] > 0
        /\ \A j \in Jobs : execCount[j] <= 1
        /\ SupervisorFinished => \A j \in Submitted : ~WithWorker(j)
        /\ panicked_jobs <= size
        /\ panicked_jobs <= joined
        /\ spawned <= size

\* Under Kill both workers of a pool of two have panicked, on jobs 1 and 2,
\* both panics have been counted, and job 3 was never run.
C24_Witness ==
    /\ mode = "Kill"
    /\ size = 2
    /\ supPc = "aborted"
    /\ panicked_jobs = 2
    /\ submitted = 3
    /\ execCount[1] = 1 /\ execCount[2] = 1 /\ execCount[3] = 0

====
